---- MODULE Spec2Model ----
(***************************************************************************)
(* Discrete-event simulation of the dining philosophers                    *)
(* (src/dining_philosophers.py): Chopstick, Philosopher, Event, the heapq   *)
(* event queue and Simulation.run.                                          *)
(*                                                                         *)
(* Time is modelled by integers.  random.expovariate is modelled as a free  *)
(* choice of a delay: it returns -log(1 - random()) / rate with random()    *)
(* in [0, 1), so the delay is >= 0 and can be exactly 0.                     *)
(***************************************************************************)
EXTENDS Integers, Sequences, FiniteSets, TLC

\* ---- bounds of the model ------------------------------------------------
MaxN == 5
MaxT == 2
MaxDelay == 2
MaxDispatch == 4

\* numbers of philosophers: odd and at least 3
Ns == {n \in 3..MaxN : n % 2 = 1}
\* horizons
Ts == 1..MaxT
\* values random.expovariate can return
Delays == 0..MaxDelay
\* the delays of a run in which every sampled delay is positive: the smallest
\* step and the largest delay
PosDelays == {1, MaxDelay}

VARIABLES
    N,                \* len(self.philosophers)
    T,                \* self.T
    is_free,          \* Chopstick.is_free, by chopstick index
    failed_attempts,  \* Philosopher.failed_attempts, by philosopher index
    eating_time,      \* Philosopher.eating_time
    started_at,       \* Philosopher.started_at
    requests,         \* Philosopher.requests
    events,           \* Simulation.events: the heapq array
    time,             \* the local `time` of Simulation.run
    args,             \* the argparse namespace / the arguments of run(n, T, mi, lambdas)
    pc,               \* position: "main" (before validation), "rejected" (ValueError),
                      \* "seed", "loop", "done" (in Simulation.run), "raised" (crashed)
    seedIdx,          \* index of the for loop of line 80
    \* history variables (not program state)
    holds,            \* chopsticks each philosopher picked up and has not put down
    state,            \* "EATING" from a successful request() to the next finish()
    trace,            \* the events popped by the while loop, in order
    acquisitions,     \* successful request() calls, by philosopher index
    doubleAcquire,    \* pick_up() was called on a chopstick that was not free
    doubleRelease     \* put_down() was called on a chopstick that was free

vars == <<N, T, is_free, failed_attempts, eating_time, started_at, requests,
          events, time, args, pc, seedIdx, holds, state, trace, acquisitions,
          doubleAcquire, doubleRelease>>

Phils == 0..(N - 1)

\* ---- EventTypes ---------------------------------------------------------
REQUEST == "REQUEST"
FINISH == "FINISH"

\* ---- Simulation.__init__: the ring ---------------------------------------
left_chopstick(i) == i
right_chopstickNoWrap(i) == IF i + 1 < N THEN i + 1 ELSE i
right_chopstick(i) == (i + 1) % N

\* ---- Chopstick ------------------------------------------------------------
pick_upNoop(free, c) == free
pick_up(free, c) == [free EXCEPT ![c] = FALSE]
put_downNoop(free, c) == free
put_down(free, c) == [free EXCEPT ![c] = TRUE]

\* ---- Event ----------------------------------------------------------------
Event(i, t, ty) == [philosopher |-> i, time |-> t, type |-> ty]

\* Event.__lt__
EventLt(a, b) == a.time < b.time

\* ---- heapq (positions are 0-based as in the library; heap[p] is h[p + 1]) -
RECURSIVE SiftDown(_, _, _, _)
\* heapq._siftdown(heap, startpos, pos), newitem = heap[pos] on entry
SiftDown(h, startpos, pos, newitem) ==
    IF pos > startpos
    THEN LET parentpos == (pos - 1) \div 2
             parent == h[parentpos + 1]
         IN IF EventLt(newitem, parent)
            THEN SiftDown([h EXCEPT ![pos + 1] = parent], startpos, parentpos, newitem)
            ELSE [h EXCEPT ![pos + 1] = newitem]
    ELSE [h EXCEPT ![pos + 1] = newitem]

RECURSIVE SiftUp(_, _, _, _)
\* heapq._siftup(heap, pos): bubble the smaller child up to a leaf, then
\* _siftdown the new item from there
SiftUp(h, startpos, pos, newitem) ==
    LET endpos == Len(h)
        leftpos == 2 * pos + 1
        rightpos == leftpos + 1
        childpos == IF rightpos < endpos /\ ~EventLt(h[leftpos + 1], h[rightpos + 1])
                    THEN rightpos ELSE leftpos
    IN IF leftpos < endpos
       THEN SiftUp([h EXCEPT ![pos + 1] = h[childpos + 1]], startpos, childpos, newitem)
       ELSE SiftDown([h EXCEPT ![pos + 1] = newitem], startpos, pos, newitem)

heappushAppend(h, item) == Append(h, item)
\* heapq.heappush(heap, item)
heappush(h, item) == SiftDown(Append(h, item), 0, Len(h), item)

\* the item heapq.heappop(heap) returns
heappopItem(h) == h[1]

heappopRestPeek(h) == h
\* the heap heapq.heappop(heap) leaves
heappopRest(h) ==
    IF Len(h) = 1 THEN <<>>
    ELSE LET lastelt == h[Len(h)]
             rest == SubSeq(h, 1, Len(h) - 1)
         IN SiftUp([rest EXCEPT ![1] = lastelt], 0, 0, lastelt)

\* ---- Philosopher ----------------------------------------------------------
CanEatLeftOnly(i) == is_free[left_chopstick(i)]
CanEatRightOnly(i) == is_free[right_chopstick(i)]
\* the condition of line 40
CanEat(i) == is_free[left_chopstick(i)] /\ is_free[right_chopstick(i)]

requestEventRelative(i, t, d) ==
    IF CanEat(i) THEN Event(i, d, FINISH) ELSE Event(i, d, REQUEST)
requestEventAlwaysFinish(i, t, d) == Event(i, t + d, FINISH)
\* the event Philosopher.request(time) returns, d the sampled delay
requestEvent(i, t, d) ==
    IF CanEat(i) THEN Event(i, t + d, FINISH) ELSE Event(i, t + d, REQUEST)

requestNoCount(i, t) ==
    LET l == left_chopstick(i)
        r == right_chopstick(i)
    IN /\ requests' = [requests EXCEPT ![i] = Append(@, t)]
       /\ IF CanEat(i)
          THEN /\ is_free' = pick_up(pick_up(is_free, l), r)
               /\ doubleAcquire' = (doubleAcquire \/ ~is_free[l]
                                      \/ ~pick_up(is_free, l)[r])
               /\ started_at' = [started_at EXCEPT ![i] = t]
               /\ holds' = [holds EXCEPT ![i] = @ \cup {l, r}]
               /\ state' = [state EXCEPT ![i] = "EATING"]
               /\ acquisitions' = [acquisitions EXCEPT ![i] = @ + 1]
          ELSE UNCHANGED <<is_free, doubleAcquire, started_at, holds, state,
                           acquisitions>>
       /\ UNCHANGED <<eating_time, doubleRelease, failed_attempts>>
\* the effects of Philosopher.request(time)
request(i, t) ==
    LET l == left_chopstick(i)
        r == right_chopstick(i)
    IN /\ requests' = [requests EXCEPT ![i] = Append(@, t)]
       /\ IF CanEat(i)
          THEN /\ is_free' = pick_up(pick_up(is_free, l), r)
               /\ doubleAcquire' = (doubleAcquire \/ ~is_free[l]
                                      \/ ~pick_up(is_free, l)[r])
               /\ started_at' = [started_at EXCEPT ![i] = t]
               /\ holds' = [holds EXCEPT ![i] = @ \cup {l, r}]
               /\ state' = [state EXCEPT ![i] = "EATING"]
               /\ acquisitions' = [acquisitions EXCEPT ![i] = @ + 1]
               /\ UNCHANGED failed_attempts
          ELSE /\ failed_attempts' = [failed_attempts EXCEPT ![i] = @ + 1]
               /\ UNCHANGED <<is_free, doubleAcquire, started_at, holds, state,
                              acquisitions>>
       /\ UNCHANGED <<eating_time, doubleRelease>>

EatenPlus(t, s) == t + s
EatenFromZero(t, s) == t
\* the term added to eating_time at line 52
Eaten(t, s) == t - s

FinishPutDownLeftOnly(free, i) == put_down(free, left_chopstick(i))
\* the chopsticks after lines 50-51
FinishPutDown(free, i) == put_down(put_down(free, left_chopstick(i)), right_chopstick(i))

finishEventFinish(i, t, d) == Event(i, t + d, FINISH)
\* the event Philosopher.finish(time) returns
finishEvent(i, t, d) == Event(i, t + d, REQUEST)

\* the effects of Philosopher.finish(time)
finish(i, t) ==
    LET l == left_chopstick(i)
        r == right_chopstick(i)
    IN /\ is_free' = FinishPutDown(is_free, i)
       /\ doubleRelease' = (doubleRelease \/ is_free[l] \/ put_down(is_free, l)[r])
       /\ eating_time' = [eating_time EXCEPT ![i] = @ + Eaten(t, started_at[i])]
       /\ holds' = [holds EXCEPT ![i] = {c \in @ : ~FinishPutDown(is_free, i)[c]}]
       /\ state' = [state EXCEPT ![i] = "WAITING"]
       /\ UNCHANGED <<requests, failed_attempts, started_at, doubleAcquire,
                      acquisitions>>

\* ---- Simulation -----------------------------------------------------------
\* the state Simulation.__init__ leaves, at the entry of run(); args are those
\* of a call run(n, T): mi and lambdas are None and drawn positive (lines 122-125)
Init ==
    /\ N \in Ns
    /\ T \in Ts
    /\ is_free = [c \in 0..(N - 1) |-> TRUE]
    /\ failed_attempts = [i \in 0..(N - 1) |-> 0]
    /\ eating_time = [i \in 0..(N - 1) |-> 0]
    /\ started_at = [i \in 0..(N - 1) |-> 0]
    /\ requests = [i \in 0..(N - 1) |-> <<>>]
    /\ events = <<>>
    /\ time = 0
    /\ args = [n |-> N, T |-> T, mi |-> <<>>, lambdas |-> <<>>]
    /\ pc = "seed"
    /\ seedIdx = 0
    /\ holds = [i \in 0..(N - 1) |-> {}]
    /\ state = [i \in 0..(N - 1) |-> "WAITING"]
    /\ trace = <<>>
    /\ acquisitions = [i \in 0..(N - 1) |-> 0]
    /\ doubleAcquire = FALSE
    /\ doubleRelease = FALSE

\* one iteration of the for loop of lines 80-81
Seed(D) ==
    /\ pc = "seed"
    /\ \E d \in D :
          /\ request(seedIdx, time)
          /\ events' = heappush(events, requestEvent(seedIdx, time, d))
    /\ seedIdx' = seedIdx + 1
    /\ pc' = IF seedIdx + 1 = N THEN "loop" ELSE "seed"
    /\ UNCHANGED <<N, T, time, trace, args>>

LoopCondInclusive(t) == t <= T
LoopCondAlways(t) == TRUE
\* the condition of the while loop, line 82
LoopCond(t) == t < T

\* one iteration of the while loop (lines 83-89) whose event is a REQUEST
DispatchRequest(D, cap) ==
    /\ pc = "loop"
    /\ LoopCond(time)
    /\ Len(trace) < cap
    /\ LET event == heappopItem(events)
       IN /\ event.type = REQUEST
          /\ time' = event.time
          /\ trace' = Append(trace, event)
          /\ \E d \in D :
                /\ request(event.philosopher, event.time)
                /\ events' = heappush(heappopRest(events),
                                      requestEvent(event.philosopher, event.time, d))
    /\ UNCHANGED <<N, T, pc, seedIdx, args>>

\* one iteration of the while loop (lines 83-89) whose event is a FINISH
DispatchFinish(D, cap) ==
    /\ pc = "loop"
    /\ LoopCond(time)
    /\ Len(trace) < cap
    /\ LET event == heappopItem(events)
       IN /\ event.type = FINISH
          /\ time' = event.time
          /\ trace' = Append(trace, event)
          /\ \E d \in D :
                /\ finish(event.philosopher, event.time)
                /\ events' = heappush(heappopRest(events),
                                      finishEvent(event.philosopher, event.time, d))
    /\ UNCHANGED <<N, T, pc, seedIdx, args>>

\* the exit of the while loop and line 90
Exit ==
    /\ pc = "loop"
    /\ ~LoopCond(time)
    /\ events' = <<>>
    /\ pc' = "done"
    /\ UNCHANGED <<N, T, is_free, failed_attempts, eating_time, started_at,
                   requests, time, seedIdx, holds, state, trace, doubleAcquire,
                   doubleRelease, args, acquisitions>>

Next ==
    \/ Seed(Delays)
    \/ DispatchRequest(Delays, MaxDispatch)
    \/ DispatchFinish(Delays, MaxDispatch)
    \/ Exit

\* runs with any non-negative delays, cut after MaxDispatch dispatched events
Spec == Init /\ [][Next]_vars

\* with every delay >= 1 an event popped while the clock is below T has a time
\* in 1..T-1 or ends the loop, and a philosopher's events have distinct times:
\* at most N * (T - 1) + 1 events are dispatched
PosDispatchBound == N * T

NextPos ==
    \/ Seed(PosDelays)
    \/ DispatchRequest(PosDelays, PosDispatchBound)
    \/ DispatchFinish(PosDelays, PosDispatchBound)
    \/ Exit

\* runs in which every sampled delay is positive; run() keeps executing
SpecPos == Init /\ [][NextPos]_vars /\ WF_vars(NextPos)

\* ---- __main__ and run() ---------------------------------------------------
\* command lines: -n, -T (type=int), -mi (a float or absent), -lambdas (a list
\* of floats, possibly empty, or absent).  None is <<>>, a given value v is <<v>>.
ArgNs == 2..MaxN
ArgTs == 0..MaxT
ArgMis == {<<>>, <<0 - 1>>, <<0>>, <<1>>}
ArgLambdas == {<<>>, << <<>> >>, << <<1, 1, 1>> >>, << <<1, 0, 1>> >>,
               << <<1, 0 - 1, 1>> >>, << <<1, 1>> >>}

\* Python truth of args.mi: not None and not 0.0
miTruthy(a) == a.mi # <<>> /\ a.mi[1] # 0
\* Python truth of args.lambdas: not None and not empty
lambdasTruthy(a) == a.lambdas # <<>> /\ Len(a.lambdas[1]) > 0

\* args.n after lines 138-139
ArgsN(a) == IF lambdasTruthy(a) THEN Len(a.lambdas[1]) ELSE a.n

\* one of the four ValueErrors of lines 140-147 is raised
Rejects(a) ==
    \/ ArgsN(a) < 2 \/ ArgsN(a) % 2 # 1
    \/ a.T < 1
    \/ miTruthy(a) /\ a.mi[1] <= 0
    \/ lambdasTruthy(a) /\ \E k \in 1..Len(a.lambdas[1]) : a.lambdas[1][k] <= 0

\* the number of philosophers run() builds: len(lambdas), lambdas drawn for n
\* philosophers only when it is None (lines 124-126, 72)
BuiltN(a) == IF a.lambdas = <<>> THEN ArgsN(a) ELSE Len(a.lambdas[1])

\* the command line is parsed, nothing is built yet
InitMain ==
    /\ args \in [n : ArgNs, T : ArgTs, mi : ArgMis, lambdas : ArgLambdas]
    /\ pc = "main"
    /\ N = 0
    /\ T = 0
    /\ is_free = <<>>
    /\ failed_attempts = <<>>
    /\ eating_time = <<>>
    /\ started_at = <<>>
    /\ requests = <<>>
    /\ events = <<>>
    /\ time = 0
    /\ seedIdx = 0
    /\ holds = <<>>
    /\ state = <<>>
    /\ trace = <<>>
    /\ acquisitions = <<>>
    /\ doubleAcquire = FALSE
    /\ doubleRelease = FALSE

\* lines 138-147 when a check fails
MainReject ==
    /\ pc = "main"
    /\ Rejects(args)
    /\ args' = [args EXCEPT !.n = ArgsN(args)]
    /\ pc' = "rejected"
    /\ UNCHANGED <<N, T, is_free, failed_attempts, eating_time, started_at,
                   requests, events, time, seedIdx, holds, state, trace,
                   acquisitions, doubleAcquire, doubleRelease>>

\* lines 138-157 when every check passes, then run() up to the entry of
\* Simulation.run (lines 121-127, 69-79); with no philosopher the seeding loop
\* is empty
MainRun ==
    /\ pc = "main"
    /\ ~Rejects(args)
    /\ args' = [args EXCEPT !.n = ArgsN(args)]
    /\ N' = BuiltN(args)
    /\ T' = args.T
    /\ is_free' = [c \in 0..(BuiltN(args) - 1) |-> TRUE]
    /\ failed_attempts' = [i \in 0..(BuiltN(args) - 1) |-> 0]
    /\ eating_time' = [i \in 0..(BuiltN(args) - 1) |-> 0]
    /\ started_at' = [i \in 0..(BuiltN(args) - 1) |-> 0]
    /\ requests' = [i \in 0..(BuiltN(args) - 1) |-> <<>>]
    /\ holds' = [i \in 0..(BuiltN(args) - 1) |-> {}]
    /\ state' = [i \in 0..(BuiltN(args) - 1) |-> "WAITING"]
    /\ acquisitions' = [i \in 0..(BuiltN(args) - 1) |-> 0]
    /\ pc' = IF BuiltN(args) = 0 THEN "loop" ELSE "seed"
    /\ UNCHANGED <<events, time, seedIdx, trace, doubleAcquire, doubleRelease>>

\* random.expovariate(self.mi) divides by the rate: ZeroDivisionError for 0.0
MiIsZero == args.mi = <<0>>

\* a seeding request whose sample is drawn (a rejected lambda is never 0)
SeedSampled(D) ==
    /\ pc = "seed"
    /\ ~(MiIsZero /\ CanEat(seedIdx))
    /\ Seed(D)

\* a seeding request that picks the chopsticks up (lines 39-43) and raises
\* ZeroDivisionError at line 44
SeedRaises ==
    /\ pc = "seed"
    /\ MiIsZero
    /\ CanEat(seedIdx)
    /\ request(seedIdx, time)
    /\ pc' = "raised"
    /\ UNCHANGED <<N, T, events, time, seedIdx, trace, args>>

\* heapq.heappop raises IndexError on the empty heap (line 83)
PopRaises ==
    /\ pc = "loop"
    /\ LoopCond(time)
    /\ events = <<>>
    /\ pc' = "raised"
    /\ UNCHANGED <<N, T, is_free, failed_attempts, eating_time, started_at,
                   requests, events, time, seedIdx, holds, state, trace,
                   acquisitions, doubleAcquire, doubleRelease, args>>

\* philosopher 0 always eats at seeding, so a run with mi = 0 never gets to
\* the while loop
NextMain ==
    \/ MainReject
    \/ MainRun
    \/ SeedSampled(PosDelays)
    \/ SeedRaises
    \/ PopRaises
    \/ (events # <<>> /\ DispatchRequest(PosDelays, PosDispatchBound))
    \/ (events # <<>> /\ DispatchFinish(PosDelays, PosDispatchBound))
    \/ Exit

\* the program from its command line on (one simulation)
SpecMain == InitMain /\ [][NextMain]_vars

\* ---- derived quantities ---------------------------------------------------
RECURSIVE SumTo(_, _)
\* f[0] + ... + f[n]
SumTo(f, n) == IF n < 0 THEN 0 ELSE f[n] + SumTo(f, n - 1)

\* the philosophers holding chopstick c
Holders(c) == {i \in Phils : c \in holds[i]}

\* the FINISH events dispatched so far
FinishCount == Cardinality({k \in 1..Len(trace) : trace[k].type = FINISH})

\* the calls of request() on philosopher i: the seeding call and the REQUEST
\* events dispatched to it
RequestCalls(i) ==
    (IF seedIdx > i THEN 1 ELSE 0)
    + Cardinality({k \in 1..Len(trace) :
                      trace[k].philosopher = i /\ trace[k].type = REQUEST})

LastEvent == trace[Len(trace)]

\* ---- C1 -------------------------------------------------------------------
\* C1: mutual exclusion: in every reachable state no chopstick is held by more
\* than one philosopher, a philosopher holding a chopstick from the request()
\* that picked it up until its next finish().
C1_MutualExclusion == \A c \in 0..(N - 1) : Cardinality(Holders(c)) <= 1

\* a philosopher that lost the seeding round eats after its neighbour finished
C1_Witness ==
    \E k \in 1..Len(trace) :
        /\ trace[k].type = REQUEST
        /\ state[trace[k].philosopher] = "EATING"
        /\ started_at[trace[k].philosopher] = trace[k].time
        /\ Holders(left_chopstick(trace[k].philosopher)) = {trace[k].philosopher}

\* ---- C2 -------------------------------------------------------------------
\* C2: between event handlers every philosopher holds both of its chopsticks
\* (it is EATING, and both are not free) or none (it is WAITING); never
\* exactly one.
C2_BothOrNeither ==
    \A i \in Phils :
        LET l == left_chopstick(i)
            r == right_chopstick(i)
        IN \/ /\ state[i] = "EATING"
              /\ holds[i] = {l, r}
              /\ ~is_free[l]
              /\ ~is_free[r]
           \/ /\ state[i] = "WAITING"
              /\ holds[i] = {}

\* one philosopher has finished a meal and waits while another one eats
C2_Witness ==
    /\ \E k \in 1..Len(trace) :
          /\ trace[k].type = FINISH
          /\ state[trace[k].philosopher] = "WAITING"
    /\ \E j \in Phils : state[j] = "EATING" /\ Cardinality(holds[j]) = 2

\* ---- C3 -------------------------------------------------------------------
\* C3: the times of the events popped by run() are non-decreasing, and none is
\* below 0, the seeding time; the clock is the time of the last popped event.
C3_TimeNonDecreasing ==
    /\ \A k \in 1..Len(trace) :
          trace[k].time >= (IF k = 1 THEN 0 ELSE trace[k - 1].time)
    /\ time = (IF Len(trace) = 0 THEN 0 ELSE LastEvent.time)

\* three events popped, two of them with equal times, then a later one
C3_Witness ==
    /\ Len(trace) >= 3
    /\ trace[1].time = trace[2].time
    /\ trace[2].time < trace[3].time

\* ---- C4 -------------------------------------------------------------------
\* C4: every dispatch pushes exactly one follow-up event: while the loop runs
\* the queue holds exactly N events, during seeding one per seeded
\* philosopher, and it never holds more than N.
C4_QueuePopulation ==
    /\ pc = "seed" => Len(events) = seedIdx
    /\ pc = "loop" => Len(events) = N
    /\ Len(events) <= N

\* the queue is full after a REQUEST and a FINISH have been dispatched
C4_Witness ==
    /\ pc = "loop"
    /\ Len(events) = N
    /\ \E k \in 1..Len(trace) : trace[k].type = REQUEST
    /\ \E k \in 1..Len(trace) : trace[k].type = FINISH

\* ---- C5 -------------------------------------------------------------------
\* C5 (as stated): the length of every request log equals the number of
\* request() calls on its philosopher and its timestamps are strictly
\* increasing.
C5_Original ==
    \A i \in Phils :
        /\ Len(requests[i]) = RequestCalls(i)
        /\ \A k \in 1..(Len(requests[i]) - 1) : requests[i][k] < requests[i][k + 1]

\* C5 (amended): the length of every request log equals the number of
\* request() calls on its philosopher (the seeding call and the REQUEST events
\* dispatched to it), its timestamps are non-decreasing, and a step only
\* appends to a log.
C5_RequestLog ==
    /\ [](\A i \in Phils :
            /\ Len(requests[i]) = RequestCalls(i)
            /\ \A k \in 1..(Len(requests[i]) - 1) :
                  requests[i][k] <= requests[i][k + 1])
    /\ [][\A i \in Phils :
            /\ Len(requests'[i]) >= Len(requests[i])
            /\ SubSeq(requests'[i], 1, Len(requests[i])) = requests[i]]_vars

\* a retry sampled a zero delay: the log repeats a timestamp, then grows again
C5_Witness ==
    \E i \in Phils :
        /\ Len(requests[i]) >= 3
        /\ requests[i][1] < requests[i][2]
        /\ requests[i][2] = requests[i][3]

\* ---- C6 -------------------------------------------------------------------
\* C6: every dispatched event but the last has a time below T; when run() has
\* left the loop the last dispatched event has a time >= T and was handled (a
\* REQUEST was logged, a FINISH freed both chopsticks and left the philosopher
\* waiting), and the clock is its time.
C6_HorizonRule ==
    /\ \A k \in 1..(Len(trace) - 1) : trace[k].time < T
    /\ pc = "done" =>
          /\ Len(trace) >= 1
          /\ LastEvent.time >= T
          /\ time = LastEvent.time
          /\ LET p == LastEvent.philosopher
             IN IF LastEvent.type = REQUEST
                THEN requests[p][Len(requests[p])] = LastEvent.time
                ELSE /\ state[p] = "WAITING"
                     /\ is_free[left_chopstick(p)]
                     /\ is_free[right_chopstick(p)]

\* the run has ended on an event strictly after the horizon
C6_Witness ==
    /\ pc = "done"
    /\ Len(trace) >= 2
    /\ LastEvent.time > T
    /\ trace[Len(trace) - 1].time < T

\* ---- C7 -------------------------------------------------------------------
\* C7 (as stated): at the end of a run the sum of the eating times is at most
\* the number of FINISH events dispatched times T.
C7_Original ==
    pc = "done" => SumTo(eating_time, N - 1) <= FinishCount * T

\* C7 (amended): at every point of a run, and so at its end, the sum of the
\* eating times is at most the number of FINISH events dispatched times the
\* clock (the time of the last dispatched event, which can exceed T).
C7_Conservation ==
    SumTo(eating_time, N - 1) <= FinishCount * time

\* the run ended on a FINISH after the horizon and the total exceeds FinishCount * T
C7_Witness ==
    /\ pc = "done"
    /\ LastEvent.type = FINISH
    /\ SumTo(eating_time, N - 1) > FinishCount * T

\* ---- C8 -------------------------------------------------------------------
\* C8: pick_up() is only called on a free chopstick and put_down() only on a
\* chopstick that is not free.
C8_NoDoubleAcquireRelease == ~doubleAcquire /\ ~doubleRelease

\* chopsticks were put down by a FINISH and picked up again by a later REQUEST
C8_Witness ==
    \E k \in 1..Len(trace) : \E j \in (k + 1)..Len(trace) :
        /\ trace[k].type = FINISH
        /\ trace[j].type = REQUEST
        /\ started_at[trace[j].philosopher] = trace[j].time
        /\ state[trace[j].philosopher] = "EATING"
        /\ trace[j].time > 0

\* ---- C9 -------------------------------------------------------------------
\* C9: when every sampled delay is positive, run() leaves the loop, with all
\* eating times and failed-attempt counts non-negative.
C9_Terminates ==
    <>(/\ pc = "done"
       /\ time >= T
       /\ \A i \in Phils : eating_time[i] >= 0 /\ failed_attempts[i] >= 0)

\* a run with positive delays that ended after events at several times
C9_Witness ==
    /\ pc = "done"
    /\ Len(trace) >= 3
    /\ trace[1].time >= 1
    /\ \E i \in Phils : eating_time[i] > 0
    /\ \E i \in Phils : failed_attempts[i] > 1

\* ---- C11 ------------------------------------------------------------------
\* the philosophers that were given chopstick c as their left or right one
Users(c) == {i \in Phils : left_chopstick(i) = c \/ right_chopstick(i) = c}

\* C11: philosopher i has chopstick i on its left and chopstick i + 1 on its
\* right, the last philosopher chopstick 0; so every chopstick has exactly two
\* users, philosopher c (as left) and philosopher c - 1, cyclically (as
\* right), and a philosopher only ever holds its own two chopsticks.
C11_Ring ==
    /\ \A i \in Phils :
          /\ left_chopstick(i) = i
          /\ right_chopstick(i) = (IF i = N - 1 THEN 0 ELSE i + 1)
          /\ holds[i] \subseteq {i, IF i = N - 1 THEN 0 ELSE i + 1}
    /\ \A c \in 0..(N - 1) :
          /\ {i \in Phils : left_chopstick(i) = c} = {c}
          /\ {i \in Phils : right_chopstick(i) = c} = {IF c = 0 THEN N - 1 ELSE c - 1}
          /\ Cardinality(Users(c)) = 2

\* with five philosophers the last one eats with chopsticks 4 and 0
C11_Witness ==
    /\ N = 5
    /\ state[4] = "EATING"
    /\ holds[4] = {4, 0}
    /\ ~is_free[0]
    /\ ~is_free[4]
    /\ holds[3] = {}

\* ---- C12 ------------------------------------------------------------------
\* the input the claim calls malformed: the number of philosophers to simulate
\* even or below 3, T <= 0, a given mi <= 0, a given lambda <= 0
Malformed(a) ==
    \/ BuiltN(a) < 3 \/ BuiltN(a) % 2 # 1
    \/ a.T <= 0
    \/ a.mi # <<>> /\ a.mi[1] <= 0
    \/ a.lambdas # <<>> /\ \E k \in 1..Len(a.lambdas[1]) : a.lambdas[1][k] <= 0

\* C12: every malformed input is rejected with a ValueError before a
\* Simulation is built: once __main__ is past its checks a malformed command
\* line has been rejected, and the run never crashes.
C12_Validation ==
    /\ (pc # "main" /\ Malformed(args)) => pc = "rejected"
    /\ pc # "raised"

\* ---- C13 ------------------------------------------------------------------
\* the positions in the queue of the events of philosopher i
Pending(i) == {k \in 1..Len(events) : events[k].philosopher = i}

\* C13: at every loop boundary every philosopher has exactly one event in the
\* queue, a FINISH iff the philosopher is EATING (during seeding: every seeded
\* philosopher); so the event popped next is a REQUEST for a WAITING
\* philosopher or a FINISH for an EATING one.
C13_EventKind ==
    /\ pc \in {"seed", "loop"} =>
          \A i \in Phils :
             IF pc = "loop" \/ i < seedIdx
             THEN /\ Cardinality(Pending(i)) = 1
                  /\ \A k \in Pending(i) :
                        (events[k].type = FINISH) <=> (state[i] = "EATING")
             ELSE Pending(i) = {}
    /\ pc = "loop" =>
          LET event == heappopItem(events)
          IN /\ event.type = REQUEST => state[event.philosopher] = "WAITING"
             /\ event.type = FINISH => state[event.philosopher] = "EATING"

\* the next event is the FINISH of a philosopher that had to retry before it
\* could eat, while a philosopher that already finished waits with a REQUEST
C13_Witness ==
    /\ pc = "loop"
    /\ LoopCond(time)
    /\ heappopItem(events).type = FINISH
    /\ failed_attempts[heappopItem(events).philosopher] >= 1
    /\ \E k \in 1..Len(trace) :
          /\ trace[k].type = FINISH
          /\ state[trace[k].philosopher] = "WAITING"

\* ---- the request() and finish() calls of a step ---------------------------
\* the step calls request() on philosopher i: a seeding iteration, or a loop
\* iteration whose popped event is a REQUEST of i
RequestCalled(i) ==
    \/ pc = "seed" /\ seedIdx = i /\ seedIdx' = i + 1
    \/ /\ pc = "loop"
       /\ Len(trace') = Len(trace) + 1
       /\ trace'[Len(trace')].philosopher = i
       /\ trace'[Len(trace')].type = REQUEST

\* the step calls finish() on philosopher i
FinishCalled(i) ==
    /\ pc = "loop"
    /\ Len(trace') = Len(trace) + 1
    /\ trace'[Len(trace')].philosopher = i
    /\ trace'[Len(trace')].type = FINISH

\* the time argument of the handler the step calls
CallTime == IF pc = "seed" THEN time ELSE time'

\* after the step the queue holds exactly one event of philosopher i, of type
\* ty and with a time >= t
FollowUp(i, ty, t) ==
    /\ Cardinality({k \in 1..Len(events') : events'[k].philosopher = i}) = 1
    /\ \A k \in 1..Len(events') :
          events'[k].philosopher = i => events'[k].type = ty /\ events'[k].time >= t

\* ---- C14 ------------------------------------------------------------------
\* C14: a request(t) on a philosopher whose two chopsticks are free appends t
\* to its log, takes both chopsticks, sets started_at to t, leaves every
\* failed_attempts unchanged and is followed by exactly one event of the
\* philosopher, a FINISH with time >= t.
C14_SuccessfulRequest ==
    [][\A i \in Phils :
          (RequestCalled(i) /\ is_free[left_chopstick(i)] /\ is_free[right_chopstick(i)])
          => /\ requests'[i] = Append(requests[i], CallTime)
             /\ ~is_free'[left_chopstick(i)]
             /\ ~is_free'[right_chopstick(i)]
             /\ started_at'[i] = CallTime
             /\ state'[i] = "EATING"
             /\ failed_attempts' = failed_attempts
             /\ FollowUp(i, FINISH, CallTime)]_vars

\* the last dispatched event is a REQUEST at a time >= 1 that succeeded after
\* an earlier failure of the same philosopher
C14_Witness ==
    /\ Len(trace) >= 1
    /\ LastEvent.type = REQUEST
    /\ LastEvent.time >= 1
    /\ state[LastEvent.philosopher] = "EATING"
    /\ started_at[LastEvent.philosopher] = LastEvent.time
    /\ failed_attempts[LastEvent.philosopher] >= 1
    /\ pc = "loop"

\* ---- C15 ------------------------------------------------------------------
\* C15: a request(t) on a philosopher with a chopstick that is not free adds 1
\* to its failed_attempts and appends t to its log; no chopstick changes, its
\* eating_time and started_at and all fields of the other philosophers stay as
\* they are, and it is followed by exactly one event of the philosopher, a
\* REQUEST with time >= t.
C15_FailedRequest ==
    [][\A i \in Phils :
          (RequestCalled(i)
             /\ ~(is_free[left_chopstick(i)] /\ is_free[right_chopstick(i)]))
          => /\ failed_attempts' = [failed_attempts EXCEPT ![i] = @ + 1]
             /\ requests' = [requests EXCEPT ![i] = Append(@, CallTime)]
             /\ is_free' = is_free
             /\ eating_time' = eating_time
             /\ started_at' = started_at
             /\ state' = state
             /\ FollowUp(i, REQUEST, CallTime)]_vars

\* the last dispatched event is a REQUEST at a time >= 1 that failed, for the
\* second time, because the right neighbour eats
C15_Witness ==
    /\ Len(trace) >= 1
    /\ LastEvent.type = REQUEST
    /\ LastEvent.time >= 1
    /\ state[LastEvent.philosopher] = "WAITING"
    /\ failed_attempts[LastEvent.philosopher] >= 2
    /\ requests[LastEvent.philosopher][Len(requests[LastEvent.philosopher])] = LastEvent.time
    /\ state[right_chopstick(LastEvent.philosopher)] = "EATING"

\* ---- C16 ------------------------------------------------------------------
\* the time of the last event of philosopher i among the first k popped ones,
\* 0 (the seeding request) when there is none
RECURSIVE LastTimeBefore(_, _)
LastTimeBefore(i, k) ==
    IF k = 0 THEN 0
    ELSE IF trace[k].philosopher = i THEN trace[k].time
    ELSE LastTimeBefore(i, k - 1)

\* the total length of the eating intervals of philosopher i closed by the
\* first k popped events: a FINISH closes the interval opened by the
\* philosopher's previous event, its successful request
RECURSIVE CompletedEating(_, _)
CompletedEating(i, k) ==
    IF k = 0 THEN 0
    ELSE CompletedEating(i, k - 1)
         + (IF trace[k].philosopher = i /\ trace[k].type = FINISH
            THEN trace[k].time - LastTimeBefore(i, k - 1)
            ELSE 0)

\* C16: a FINISH at time t frees both chopsticks of its philosopher, adds
\* t - started_at >= 0 to its eating_time, leaves the other chopsticks and all
\* failed_attempts and request logs unchanged and is followed by exactly one
\* event of the philosopher, a REQUEST with time >= t; eating_time never
\* decreases and always equals the total length of the completed eating
\* intervals, an interval still open not being counted.
C16_FinishHandler ==
    /\ [][\A i \in Phils :
            FinishCalled(i)
            => /\ is_free'[left_chopstick(i)]
               /\ is_free'[right_chopstick(i)]
               /\ \A c \in 0..(N - 1) :
                     c \notin {left_chopstick(i), right_chopstick(i)}
                     => is_free'[c] = is_free[c]
               /\ time' - started_at[i] >= 0
               /\ eating_time' = [eating_time EXCEPT ![i] = @ + (time' - started_at[i])]
               /\ state'[i] = "WAITING"
               /\ failed_attempts' = failed_attempts
               /\ requests' = requests
               /\ FollowUp(i, REQUEST, time')]_vars
    /\ [][\A i \in Phils : eating_time'[i] >= eating_time[i]]_vars
    /\ [](\A i \in Phils : eating_time[i] = CompletedEating(i, Len(trace)))

\* the run ended while a philosopher that completed a meal of positive length
\* is eating again: the open interval is not in its eating_time
C16_Witness ==
    /\ pc = "done"
    /\ \E i \in Phils :
          /\ state[i] = "EATING"
          /\ started_at[i] >= 1
          /\ started_at[i] < time
          /\ eating_time[i] = started_at[i]

\* ---- C17 ------------------------------------------------------------------
\* the ring neighbours of philosopher i
LeftNeighbour(i) == (i + N - 1) % N
RightNeighbour(i) == (i + 1) % N

\* C17: the request of a WAITING philosopher fails iff one of its two
\* neighbours is EATING; when every philosopher is WAITING every chopstick is
\* free and the REQUEST popped next succeeds; two neighbours never eat at the
\* same time.
C17_FailsOnlyByNeighbour ==
    /\ \A i \in Phils :
          state[i] = "WAITING"
          => (~CanEat(i) <=> (state[LeftNeighbour(i)] = "EATING"
                                \/ state[RightNeighbour(i)] = "EATING"))
    /\ (\A i \in Phils : state[i] = "WAITING")
          => /\ \A c \in 0..(N - 1) : is_free[c]
             /\ pc = "loop" => /\ heappopItem(events).type = REQUEST
                               /\ CanEat(heappopItem(events).philosopher)
    /\ \A i \in Phils : ~(state[i] = "EATING" /\ state[RightNeighbour(i)] = "EATING")

\* every philosopher waits again after meals were finished, and the loop goes on
C17_Witness ==
    /\ pc = "loop"
    /\ LoopCond(time)
    /\ \A i \in Phils : state[i] = "WAITING"
    /\ \E i \in Phils : eating_time[i] >= 1
    /\ \A c \in 0..(N - 1) : is_free[c]

\* ---- C18 ------------------------------------------------------------------
\* C18: when the seeding loop has ended, whatever the delays drawn, exactly
\* the philosophers with an even index below N - 1 are EATING, the others
\* (odd index, and philosopher N - 1) are WAITING with one failed attempt,
\* every request log is <<0>> and chopstick N - 1 is the only free one.
C18_SeedingOutcome ==
    (pc = "loop" /\ trace = <<>>)
    => /\ \A i \in Phils :
             /\ requests[i] = <<0>>
             /\ IF i % 2 = 0 /\ i < N - 1
                THEN state[i] = "EATING" /\ failed_attempts[i] = 0 /\ started_at[i] = 0
                ELSE state[i] = "WAITING" /\ failed_attempts[i] = 1
       /\ Cardinality({i \in Phils : state[i] = "EATING"}) * 2 = N - 1
       /\ \A c \in 0..(N - 1) : is_free[c] <=> c = N - 1

\* five philosophers are seeded: 0 and 2 eat, 4 waits next to the free chopstick
C18_Witness ==
    /\ pc = "loop"
    /\ trace = <<>>
    /\ N = 5
    /\ state[2] = "EATING"
    /\ state[4] = "WAITING"
    /\ is_free[4]
    /\ \E k \in 1..Len(events) : events[k].time > 0

\* ---- C19 ------------------------------------------------------------------
\* the FINISH events dispatched to philosopher i
FinishCountOf(i) ==
    Cardinality({k \in 1..Len(trace) :
                    trace[k].philosopher = i /\ trace[k].type = FINISH})

\* C19: for every philosopher the length of the request log is its failed
\* attempts plus its successful acquisitions, and the FINISH events dispatched
\* to it are as many as its acquisitions, one less exactly when it is EATING.
C19_RequestAccounting ==
    \A i \in Phils :
        /\ Len(requests[i]) = failed_attempts[i] + acquisitions[i]
        /\ FinishCountOf(i) = acquisitions[i] - (IF state[i] = "EATING" THEN 1 ELSE 0)

\* a philosopher failed, then ate and finished, while another one is eating
C19_Witness ==
    /\ \E i \in Phils :
          /\ failed_attempts[i] >= 1
          /\ acquisitions[i] = 1
          /\ FinishCountOf(i) = 1
          /\ Len(requests[i]) >= 2
    /\ \E j \in Phils : state[j] = "EATING" /\ FinishCountOf(j) = acquisitions[j] - 1

\* ---- C20 ------------------------------------------------------------------
\* C20: the retry policy does not make every philosopher eat.  In every state
\* of a run with positive delays a philosopher that never took its chopsticks
\* is WAITING with eating_time 0, no FINISH and failed_attempts equal to the
\* length of its request log, while philosopher 0 has eaten from the seeding
\* on; and (the witness) with N = 3 a run reaches its end with philosopher 1
\* in that condition after philosophers 0 and 2 have both eaten.
C20_StarvedPhilosopher ==
    /\ \A i \in Phils :
          acquisitions[i] = 0
          => /\ state[i] = "WAITING"
             /\ eating_time[i] = 0
             /\ FinishCountOf(i) = 0
             /\ failed_attempts[i] = Len(requests[i])
    /\ seedIdx >= 1 => acquisitions[0] >= 1

\* a complete run over the largest horizon, N = 3: philosopher 1 requested
\* several times and never ate, philosophers 0 and 2 ate
C20_Witness ==
    /\ pc = "done"
    /\ N = 3
    /\ T = MaxT
    /\ acquisitions[1] = 0
    /\ state[1] = "WAITING"
    /\ eating_time[1] = 0
    /\ Len(requests[1]) >= 2
    /\ failed_attempts[1] = Len(requests[1])
    /\ acquisitions[0] >= 1
    /\ acquisitions[2] >= 1

====
